---- MODULE Spec2Model ----
(***************************************************************************)
(* brcmfmac_iovar.c: one command-line invocation of the tool.  main calls  *)
(* get_iovar_int or set_iovar_int, which call send_vendor_cmd; that opens  *)
(* a netlink socket, sends one NL80211_CMD_VENDOR message and pumps        *)
(* nl_recvmsgs until resp->error leaves -EINPROGRESS.  Each callback       *)
(* invocation is one step of the model.                                    *)
(***************************************************************************)
EXTENDS Integers, Sequences, FiniteSets, TLC

(* ------------------------------ bounds -------------------------------- *)
\* callback invocations per request cycle
MaxEvents == 3
\* nl_recvmsgs calls per request cycle
MaxPumps == 2
\* longest iovar name (strlen)
MaxNameLen == 256
\* longest BRCMF_NLATTR_DATA attribute of a reply
MaxRespLen == 4

(* ------------------------- program constants -------------------------- *)
BRCMF_C_GET_VAR == 262
BRCMF_C_SET_VAR == 263
ENOMEM == 12
EACCES == 13
ENODATA == 61
EINPROGRESS == 115
SizeofHdr == 20
SizeofU32 == 4
RetLenFloor == 256
NULL == 0
Int32Max == 2147483647

\* "btc_mode" as bytes
BtcMode == <<98, 116, 99, 95, 109, 111, 100, 101>>
LongName(n) == [i \in 1..n |-> 97]
\* argv[3]: the names the tool is run with
Names == {BtcMode, LongName(MaxNameLen - 1), LongName(MaxNameLen)}
\* (uint32_t)strtoul(argv[4]): the values the tool is run with
Values == {4, 16909060}
\* err->error of an NLMSG_ERROR message: any negative errno the kernel sends
ErrCodes == {-EACCES, -EINPROGRESS}
\* negative results of genl_connect, genl_ctrl_resolve, nl_send_auto
TransportErrs == {-2, -10}
\* nla_len of the BRCMF_NLATTR_DATA attribute of a reply
RespLens == {0, SizeofU32 - 1, MaxRespLen}
\* nla_data of that attribute
RespBytes(n) == [i \in 1..n |-> i]

(* ------------------------- byte-level helpers ------------------------- *)
\* the four bytes a uint32_t occupies in memory on the host
U32Mem(v, be) ==
    LET le == << v % 256, (v \div 256) % 256,
                 (v \div 65536) % 256, (v \div 16777216) % 256 >>
    IN  IF be THEN << le[4], le[3], le[2], le[1] >> ELSE le

\* the uint32_t that four bytes of host memory hold
HostU32(m, be) ==
    IF be THEN ((m[1] * 256 + m[2]) * 256 + m[3]) * 256 + m[4]
    ELSE ((m[4] * 256 + m[3]) * 256 + m[2]) * 256 + m[1]

\* (int32_t) of a size_t
ToInt32(x) == IF x > Int32Max THEN (x - Int32Max - 1) - Int32Max - 1 ELSE x

\* memcpy(dst, src, n) out of a buffer of Len(src) bytes: the bytes copied
Memcpy(src, n) == [i \in 1..n |-> IF i <= Len(src) THEN src[i] ELSE -1]

\* strlen(iovar) + 1
NameLen(iovar) == Len(iovar) + 1

\* the bytes of the C string, terminator included
CStr(iovar) == iovar \o <<0>>

MakeHdrOffsetZero(c, is_set, rlen) ==
    [cmd |-> c, len |-> rlen, offset |-> 0,
     set |-> IF is_set # 0 THEN 1 ELSE 0, magic |-> 0]
\* struct brcmf_vndr_dcmd_hdr as filled by send_vendor_cmd
MakeHdr(c, is_set, rlen) ==
    [cmd |-> c, len |-> rlen, offset |-> SizeofHdr,
     set |-> IF is_set # 0 THEN 1 ELSE 0, magic |-> 0]

\* memcpy(vendor_data, &hdr, sizeof(hdr))
HdrMem(h, be) ==
    U32Mem(h.cmd, be) \o U32Mem(h.len, be) \o U32Mem(h.offset, be)
        \o U32Mem(h.set, be) \o U32Mem(h.magic, be)

\* vendor data blob = header followed by payload
MakeBlob(h, pl, be) == HdrMem(h, be) \o pl

(* ---------------- get_iovar_int / set_iovar_int helpers ---------------- *)
GetRetLenFloorOnly(name_len) == RetLenFloor
\* int32_t ret_len = name_len > 256 ? name_len + 4 : 256;
GetRetLen(name_len) ==
    ToInt32(IF name_len > RetLenFloor THEN name_len + 4 ELSE RetLenFloor)

SetPayloadLenAligned(name_len) == name_len + ((4 - (name_len % 4)) % 4) + SizeofU32
\* size_t payload_len = name_len + sizeof(uint32_t);
SetPayloadLen(name_len) == name_len + SizeofU32

SetPayloadOverTerminator(iovar, v, be) ==
    LET n == Len(iovar)
    IN  [i \in 1..SetPayloadLen(n + 1) |->
            IF i <= n THEN iovar[i]
            ELSE IF i <= n + SizeofU32 THEN U32Mem(v, be)[i - n]
            ELSE 0]
\* payload = calloc(1, payload_len); memcpy(payload, iovar, name_len);
\* memcpy(payload + name_len, &value, sizeof(uint32_t));
SetPayload(iovar, v, be) ==
    LET n == NameLen(iovar)
    IN  [i \in 1..SetPayloadLen(n) |->
            IF i <= n THEN CStr(iovar)[i]
            ELSE IF i <= n + SizeofU32 THEN U32Mem(v, be)[i - n]
            ELSE 0]

HasIntNonNull(r) == r.data # NULL
\* if (resp.data && resp.len >= sizeof(uint32_t))
HasInt(r) == r.data # NULL /\ r.len >= SizeofU32

SetResultNeedsData(r, rsp) == IF r = 0 /\ rsp.data = NULL THEN -ENODATA ELSE r
\* set_iovar_int: return ret;
SetResult(r, rsp) == r

(* --------------------------- response state ---------------------------- *)
ResetRespErrorOnly(r) == [r EXCEPT !.error = -EINPROGRESS]
\* memset(resp, 0, sizeof(*resp)); resp->error = -EINPROGRESS;
ResetResp(r) == [data |-> NULL, len |-> 0, error |-> -EINPROGRESS]

\* error_handler: resp->error = err->error;
error_handler(r, c) == [r EXCEPT !.error = c]
\* finish_handler: resp->error = 0;
finish_handler(r) == [r EXCEPT !.error = 0]
\* ack_handler: resp->error = 0;
ack_handler(r) == [r EXCEPT !.error = 0]

response_handlerEndsCycle(r, kind, n, p) ==
    CASE kind = "novendor" -> [r EXCEPT !.error = -ENODATA]
      [] kind = "nosub"    -> r
      [] kind = "data"     ->
            IF p # NULL THEN [r EXCEPT !.len = n, !.data = p, !.error = 0]
            ELSE [r EXCEPT !.len = n, !.data = NULL, !.error = -ENOMEM]

\* response_handler: kind is what the message carries, n is nla_len of the
\* BRCMF_NLATTR_DATA attribute, p is what malloc returned
response_handler(r, kind, n, p) ==
    CASE kind = "novendor" -> [r EXCEPT !.error = -ENODATA]
      [] kind = "nosub"    -> r
      [] kind = "data"     ->
            IF p # NULL THEN [r EXCEPT !.len = n, !.data = p]
            ELSE [r EXCEPT !.len = n, !.data = NULL, !.error = -ENOMEM]

\* what a struct iovar_response on the stack may hold before it is written
StackGarbage == {[data |-> NULL, len |-> 0, error |-> 0],
                 [data |-> -1, len |-> 3, error |-> -EINPROGRESS]}

(* ------------------------ send_vendor_cmd, main ----------------------- *)
ResolveFailRetStale(id, r) == r
\* if (nl80211_id < 0) { ret = nl80211_id; goto out; }
ResolveFailRet(id, r) == id

CallbacksSetNoFinish == {"error", "ack", "valid"}
\* nl_cb_err(error_handler); nl_cb_set(FINISH); nl_cb_set(ACK); nl_cb_set(VALID)
CallbacksSet == {"error", "finish", "ack", "valid"}

ExitStatusRaw(r) == r
\* if (ret == 0) { printf(...); return 0; } return 1;
ExitStatus(r) == IF r = 0 THEN 0 ELSE 1

\* nothing written to stdout
NoLine == << "none" >>

(* --------------------------- handles ---------------------------------- *)
Handles == {"sk", "msg", "cb", "vendor_data", "payload"}

ReleaseAtOutNoSocket(h, r) ==
    [x \in Handles |-> IF x \in {"cb", "msg", "vendor_data"} /\ h[x]
                       THEN r[x] + 1 ELSE r[x]]
\* out: if (cb) nl_cb_put; if (msg) nlmsg_free; free(vendor_data);
\*      if (sk) nl_socket_free
ReleaseAtOut(h, r) ==
    [x \in Handles |-> IF x \in {"cb", "msg", "vendor_data", "sk"} /\ h[x]
                       THEN r[x] + 1 ELSE r[x]]

\* free(p) on the response buffers: free(NULL) does nothing
Free(hp, p) ==
    IF p \in DOMAIN hp THEN [hp EXCEPT ![p].frees = @ + 1] ELSE hp

VARIABLES
    pc,          \* position in main / get_iovar_int / set_iovar_int / send_vendor_cmd
    args,        \* argc, if_nametoindex result, argv[2], argv[3], argv[4]
    bigEndian,   \* host byte order
    call,        \* send_vendor_cmd's arguments cmd, is_set, payload, ret_len
    resp,        \* struct iovar_response
    heap,        \* buffers malloc'ed by response_handler: bytes and free count
    held,        \* sk, msg, cb, vendor_data, payload: pointer is non-NULL
    acq,         \* times each handle was acquired
    rel,         \* times each handle was released
    hdr,         \* struct brcmf_vndr_dcmd_hdr hdr
    vendorData,  \* bytes of the vendor data blob
    registered,  \* callbacks set on cb
    sent,        \* nl_send_auto calls that succeeded
    pumps,       \* nl_recvmsgs calls
    events,      \* callbacks invoked in this cycle, in order
    ret,         \* send_vendor_cmd's return value
    opRet,       \* get_iovar_int / set_iovar_int return value
    valueMem,    \* memory of main's uint32_t value in get_int (<<>> = unwritten)
    oobRead,     \* a memcpy read past the end of the response buffer
    exitCode,    \* process exit status (-1 = running)
    printed,     \* line written to stdout: kind, name, value
    lastCall     \* the last libnl call of send_vendor_cmd and what it returned

vars == << pc, args, bigEndian, call, resp, heap, held, acq, rel,
           hdr, vendorData, registered, sent, pumps, events, ret, opRet,
           valueMem, oobRead, exitCode, printed, lastCall >>

\* argv[3], argv[4] of the set_int runs
SetArgs == (Names \X {4}) \cup ({BtcMode} \X Values)

NoHdr == [cmd |-> 0, len |-> 0, offset |-> 0, set |-> 0, magic |-> 0]

NoCall == [cmd |-> 0, is_set |-> 0, payload |-> <<>>, ret_len |-> 0]

ArgSets ==
    {[argc |-> 3, ifindex |-> 3, command |-> "get_int", iovar |-> <<>>, value |-> 0],
     [argc |-> 4, ifindex |-> 0, command |-> "get_int", iovar |-> BtcMode, value |-> 0],
     [argc |-> 4, ifindex |-> 3, command |-> "bogus", iovar |-> BtcMode, value |-> 0],
     [argc |-> 4, ifindex |-> 3, command |-> "set_int", iovar |-> BtcMode, value |-> 0]}
    \cup {[argc |-> 4, ifindex |-> 3, command |-> "get_int", iovar |-> n, value |-> 0]
            : n \in Names}
    \cup {[argc |-> 5, ifindex |-> 3, command |-> "set_int", iovar |-> a[1], value |-> a[2]]
            : a \in SetArgs}

Init ==
    /\ pc = "main"
    /\ args \in ArgSets
    /\ bigEndian \in BOOLEAN
    /\ call = NoCall
    /\ resp = [data |-> NULL, len |-> 0, error |-> 0]
    /\ heap = <<>>
    /\ held = [x \in Handles |-> FALSE]
    /\ acq = [x \in Handles |-> 0]
    /\ rel = [x \in Handles |-> 0]
    /\ hdr = NoHdr
    /\ vendorData = <<>>
    /\ registered = {}
    /\ sent = 0
    /\ pumps = 0
    /\ events = <<>>
    /\ ret = -1
    /\ opRet = 0
    /\ valueMem = <<>>
    /\ oobRead = FALSE
    /\ exitCode = -1
    /\ printed = NoLine
    /\ lastCall = [fn |-> "none", r |-> 0]

(* ------------------------------- main --------------------------------- *)
Exit(code, line) ==
    /\ pc' = "exit"
    /\ exitCode' = code
    /\ printed' = line

\* main, up to the call of get_iovar_int / set_iovar_int
Main ==
    /\ pc = "main"
    /\ IF args.argc < 4 THEN Exit(1, NoLine)
       ELSE IF args.ifindex = 0 THEN Exit(1, NoLine)
       ELSE IF args.command = "get_int"
            THEN pc' = "get_call" /\ UNCHANGED << exitCode, printed >>
       ELSE IF args.command = "set_int"
            THEN IF args.argc < 5 THEN Exit(1, NoLine)
                 ELSE pc' = "set_call" /\ UNCHANGED << exitCode, printed >>
       ELSE Exit(1, NoLine)
    /\ UNCHANGED << lastCall, args, bigEndian, call, resp, heap, held, acq, rel, hdr,
                    vendorData, registered, sent, pumps, events, ret, opRet,
                    valueMem, oobRead >>

\* main, after get_iovar_int / set_iovar_int returned
MainExit ==
    /\ pc = "main_ret"
    /\ IF opRet = 0
       THEN Exit(ExitStatus(opRet),
                 IF args.command = "get_int"
                 THEN << "get", args.iovar, HostU32(valueMem, bigEndian) >>
                 ELSE << "set", args.iovar, args.value >>)
       ELSE Exit(ExitStatus(opRet), NoLine)
    /\ UNCHANGED << lastCall, args, bigEndian, call, resp, heap, held, acq, rel, hdr,
                    vendorData, registered, sent, pumps, events, ret, opRet,
                    valueMem, oobRead >>

(* --------------------------- get_iovar_int ---------------------------- *)
\* get_iovar_int up to the call of send_vendor_cmd
GetCall ==
    /\ pc = "get_call"
    /\ call' = [cmd |-> BRCMF_C_GET_VAR, is_set |-> 0,
                payload |-> Memcpy(CStr(args.iovar), NameLen(args.iovar)),
                ret_len |-> GetRetLen(NameLen(args.iovar))]
    /\ resp' \in StackGarbage
    /\ pc' = "svc_reset"
    /\ UNCHANGED << lastCall, args, bigEndian, heap, held, acq, rel, hdr, vendorData,
                    registered, sent, pumps, events, ret, opRet, valueMem,
                    oobRead, exitCode, printed >>

\* get_iovar_int after send_vendor_cmd returned
GetReturn ==
    /\ pc = "svc_done"
    /\ call.cmd = BRCMF_C_GET_VAR
    /\ IF ret # 0
       THEN /\ opRet' = ret
            /\ UNCHANGED << valueMem, oobRead, heap >>
       ELSE IF HasInt(resp)
       THEN /\ valueMem' = Memcpy(heap[resp.data].bytes, SizeofU32)
            /\ oobRead' = (oobRead \/ SizeofU32 > Len(heap[resp.data].bytes))
            /\ heap' = Free(heap, resp.data)
            /\ opRet' = 0
       ELSE /\ heap' = Free(heap, resp.data)
            /\ opRet' = -ENODATA
            /\ UNCHANGED << valueMem, oobRead >>
    /\ pc' = "main_ret"
    /\ UNCHANGED << lastCall, args, bigEndian, call, resp, held, acq, rel, hdr,
                    vendorData, registered, sent, pumps, events, ret,
                    exitCode, printed >>

(* --------------------------- set_iovar_int ---------------------------- *)
\* set_iovar_int up to the call of send_vendor_cmd
SetCall ==
    /\ pc = "set_call"
    /\ \E ok \in BOOLEAN :
        IF ok
        THEN /\ held' = [held EXCEPT !["payload"] = TRUE]
             /\ acq' = [acq EXCEPT !["payload"] = @ + 1]
             /\ call' = [cmd |-> BRCMF_C_SET_VAR, is_set |-> 1,
                         payload |-> SetPayload(args.iovar, args.value, bigEndian),
                         ret_len |-> ToInt32(SetPayloadLen(NameLen(args.iovar)))]
             /\ resp' \in StackGarbage
             /\ pc' = "svc_reset"
             /\ UNCHANGED opRet
        ELSE /\ opRet' = -ENOMEM
             /\ pc' = "main_ret"
             /\ UNCHANGED << held, acq, call, resp >>
    /\ UNCHANGED << lastCall, args, bigEndian, heap, rel, hdr, vendorData, registered,
                    sent, pumps, events, ret, valueMem, oobRead, exitCode,
                    printed >>

\* set_iovar_int after send_vendor_cmd returned
SetReturn ==
    /\ pc = "svc_done"
    /\ call.cmd = BRCMF_C_SET_VAR
    /\ rel' = [rel EXCEPT !["payload"] = @ + 1]
    /\ heap' = Free(heap, resp.data)
    /\ opRet' = SetResult(ret, resp)
    /\ pc' = "main_ret"
    /\ UNCHANGED << lastCall, args, bigEndian, call, resp, held, acq, hdr, vendorData,
                    registered, sent, pumps, events, ret, valueMem, oobRead,
                    exitCode, printed >>

(* -------------------------- send_vendor_cmd --------------------------- *)
\* "goto out" with ret = r
GotoOut(r) ==
    /\ ret' = r
    /\ pc' = "svc_out"

\* memset(resp, 0, sizeof(*resp)); resp->error = -EINPROGRESS;
SvcReset ==
    /\ pc = "svc_reset"
    /\ resp' = ResetResp(resp)
    /\ pc' = "svc_sock"
    /\ UNCHANGED << lastCall, args, bigEndian, call, heap, held, acq, rel, hdr,
                    vendorData, registered, sent, pumps, events, ret, opRet,
                    valueMem, oobRead, exitCode, printed >>

\* sk = nl_socket_alloc(); if (!sk) return -ENOMEM;
SocketAlloc ==
    /\ pc = "svc_sock"
    /\ \E ok \in BOOLEAN :
        /\ lastCall' = [fn |-> "nl_socket_alloc", r |-> IF ok THEN 1 ELSE NULL]
        /\ IF ok
           THEN /\ held' = [held EXCEPT !["sk"] = TRUE]
                /\ acq' = [acq EXCEPT !["sk"] = @ + 1]
                /\ pc' = "svc_connect"
                /\ UNCHANGED ret
           ELSE /\ ret' = -ENOMEM
                /\ pc' = "svc_done"
                /\ UNCHANGED << held, acq >>
    /\ UNCHANGED << args, bigEndian, call, resp, heap, rel, hdr, vendorData,
                    registered, sent, pumps, events, opRet, valueMem, oobRead,
                    exitCode, printed >>

\* ret = genl_connect(sk); if (ret < 0) goto out;
Connect ==
    /\ pc = "svc_connect"
    /\ \E r \in {0} \cup TransportErrs :
        /\ lastCall' = [fn |-> "genl_connect", r |-> r]
        /\ IF r < 0 THEN GotoOut(r)
           ELSE ret' = r /\ pc' = "svc_resolve"
    /\ UNCHANGED << args, bigEndian, call, resp, heap, held, acq, rel, hdr,
                    vendorData, registered, sent, pumps, events, opRet,
                    valueMem, oobRead, exitCode, printed >>

\* nl80211_id = genl_ctrl_resolve(sk, "nl80211"); if (nl80211_id < 0) ...
Resolve ==
    /\ pc = "svc_resolve"
    /\ \E id \in {28} \cup TransportErrs :
        /\ lastCall' = [fn |-> "genl_ctrl_resolve", r |-> id]
        /\ IF id < 0 THEN GotoOut(ResolveFailRet(id, ret))
           ELSE pc' = "svc_blob" /\ UNCHANGED ret
    /\ UNCHANGED << args, bigEndian, call, resp, heap, held, acq, rel, hdr,
                    vendorData, registered, sent, pumps, events, opRet,
                    valueMem, oobRead, exitCode, printed >>

\* vendor_data = calloc(1, vendor_data_len); fill hdr; memcpy hdr and payload
BuildBlob ==
    /\ pc = "svc_blob"
    /\ \E ok \in BOOLEAN :
        IF ok
        THEN /\ held' = [held EXCEPT !["vendor_data"] = TRUE]
             /\ acq' = [acq EXCEPT !["vendor_data"] = @ + 1]
             /\ hdr' = MakeHdr(call.cmd, call.is_set, call.ret_len)
             /\ vendorData' = MakeBlob(hdr', call.payload, bigEndian)
             /\ pc' = "svc_msg"
             /\ UNCHANGED ret
        ELSE /\ GotoOut(-ENOMEM)
             /\ UNCHANGED << held, acq, hdr, vendorData >>
    /\ UNCHANGED << lastCall, args, bigEndian, call, resp, heap, rel, registered, sent,
                    pumps, events, opRet, valueMem, oobRead, exitCode,
                    printed >>

\* msg = nlmsg_alloc(); genlmsg_put; nla_put...
MsgAlloc ==
    /\ pc = "svc_msg"
    /\ \E ok \in BOOLEAN :
        IF ok
        THEN /\ held' = [held EXCEPT !["msg"] = TRUE]
             /\ acq' = [acq EXCEPT !["msg"] = @ + 1]
             /\ pc' = "svc_cb"
             /\ UNCHANGED ret
        ELSE /\ GotoOut(-ENOMEM)
             /\ UNCHANGED << held, acq >>
    /\ UNCHANGED << lastCall, args, bigEndian, call, resp, heap, rel, hdr, vendorData,
                    registered, sent, pumps, events, opRet, valueMem, oobRead,
                    exitCode, printed >>

\* cb = nl_cb_alloc(NL_CB_DEFAULT); nl_cb_err; nl_cb_set x 3
CbAlloc ==
    /\ pc = "svc_cb"
    /\ \E ok \in BOOLEAN :
        IF ok
        THEN /\ held' = [held EXCEPT !["cb"] = TRUE]
             /\ acq' = [acq EXCEPT !["cb"] = @ + 1]
             /\ registered' = CallbacksSet
             /\ pc' = "svc_send"
             /\ UNCHANGED ret
        ELSE /\ GotoOut(-ENOMEM)
             /\ UNCHANGED << held, acq, registered >>
    /\ UNCHANGED << lastCall, args, bigEndian, call, resp, heap, rel, hdr, vendorData,
                    sent, pumps, events, opRet, valueMem, oobRead, exitCode,
                    printed >>

\* ret = nl_send_auto(sk, msg); if (ret < 0) goto out;
Send ==
    /\ pc = "svc_send"
    /\ \E r \in {Len(vendorData)} \cup TransportErrs :
        /\ lastCall' = [fn |-> "nl_send_auto", r |-> r]
        /\ IF r < 0 THEN GotoOut(r) /\ UNCHANGED sent
           ELSE ret' = r /\ sent' = sent + 1 /\ pc' = "svc_loop"
    /\ UNCHANGED << args, bigEndian, call, resp, heap, held, acq, rel, hdr,
                    vendorData, registered, pumps, events, opRet, valueMem,
                    oobRead, exitCode, printed >>

\* while (resp->error == -EINPROGRESS) nl_recvmsgs(sk, cb);   loop taken
LoopEnter ==
    /\ pc = "svc_loop"
    /\ resp.error = -EINPROGRESS
    /\ pumps < MaxPumps
    /\ pumps' = pumps + 1
    /\ pc' = "pump"
    /\ UNCHANGED << lastCall, args, bigEndian, call, resp, heap, held, acq, rel, hdr,
                    vendorData, registered, sent, events, ret, opRet,
                    valueMem, oobRead, exitCode, printed >>

\* the loop is left; ret = resp->error;
LoopExit ==
    /\ pc = "svc_loop"
    /\ resp.error # -EINPROGRESS
    /\ GotoOut(resp.error)
    /\ UNCHANGED << lastCall, args, bigEndian, call, resp, heap, held, acq, rel, hdr,
                    vendorData, registered, sent, pumps, events, opRet,
                    valueMem, oobRead, exitCode, printed >>

\* nl_recvmsgs may call the callback for one more message
CanDeliver(h) ==
    /\ pc = "pump"
    /\ h \in registered
    /\ Len(events) < MaxEvents

Event(tag, code, buf) == [tag |-> tag, code |-> code, buf |-> buf]

\* error_handler runs; NL_STOP ends nl_recvmsgs
ErrorHandler ==
    /\ CanDeliver("error")
    /\ \E c \in ErrCodes :
        /\ resp' = error_handler(resp, c)
        /\ events' = Append(events, Event("error", c, NULL))
    /\ pc' = "svc_loop"
    /\ UNCHANGED << lastCall, args, bigEndian, call, heap, held, acq, rel, hdr,
                    vendorData, registered, sent, pumps, ret, opRet,
                    valueMem, oobRead, exitCode, printed >>

\* finish_handler runs; NL_SKIP goes on to the next message
FinishHandler ==
    /\ CanDeliver("finish")
    /\ resp' = finish_handler(resp)
    /\ events' = Append(events, Event("finish", 0, NULL))
    /\ UNCHANGED << lastCall, pc, args, bigEndian, call, heap, held, acq, rel, hdr,
                    vendorData, registered, sent, pumps, ret, opRet,
                    valueMem, oobRead, exitCode, printed >>

\* ack_handler runs; NL_STOP ends nl_recvmsgs
AckHandler ==
    /\ CanDeliver("ack")
    /\ resp' = ack_handler(resp)
    /\ events' = Append(events, Event("ack", 0, NULL))
    /\ pc' = "svc_loop"
    /\ UNCHANGED << lastCall, args, bigEndian, call, heap, held, acq, rel, hdr,
                    vendorData, registered, sent, pumps, ret, opRet,
                    valueMem, oobRead, exitCode, printed >>

\* response_handler runs on a message without NL80211_ATTR_VENDOR_DATA, or
\* with one that nests no BRCMF_NLATTR_DATA; NL_SKIP
ResponseHandlerNoData ==
    /\ CanDeliver("valid")
    /\ \E kind \in {"novendor", "nosub"} :
        /\ resp' = response_handler(resp, kind, 0, NULL)
        /\ events' = Append(events,
                Event("data", IF resp'.error = resp.error THEN 0 ELSE resp'.error,
                      NULL))
    /\ UNCHANGED << lastCall, pc, args, bigEndian, call, heap, held, acq, rel, hdr,
                    vendorData, registered, sent, pumps, ret, opRet,
                    valueMem, oobRead, exitCode, printed >>

\* response_handler runs on a message with a BRCMF_NLATTR_DATA attribute of
\* n bytes: malloc succeeds or fails; NL_SKIP
ResponseHandlerData ==
    /\ CanDeliver("valid")
    /\ \E n \in RespLens, ok \in BOOLEAN :
        LET p == IF ok THEN Len(heap) + 1 ELSE NULL IN
        /\ heap' = IF ok THEN Append(heap, [bytes |-> RespBytes(n), frees |-> 0])
                   ELSE heap
        /\ resp' = response_handler(resp, "data", n, p)
        /\ events' = Append(events, Event("data", IF ok THEN 0 ELSE -ENOMEM, p))
    /\ UNCHANGED << lastCall, pc, args, bigEndian, call, held, acq, rel, hdr,
                    vendorData, registered, sent, pumps, ret, opRet,
                    valueMem, oobRead, exitCode, printed >>

\* nl_recvmsgs returns without a callback having stopped it
PumpReturn ==
    /\ pc = "pump"
    /\ pc' = "svc_loop"
    /\ UNCHANGED << lastCall, args, bigEndian, call, resp, heap, held, acq, rel, hdr,
                    vendorData, registered, sent, pumps, events, ret, opRet,
                    valueMem, oobRead, exitCode, printed >>

\* out: release what was acquired; return ret;
Out ==
    /\ pc = "svc_out"
    /\ rel' = ReleaseAtOut(held, rel)
    /\ pc' = "svc_done"
    /\ UNCHANGED << lastCall, args, bigEndian, call, resp, heap, held, acq, hdr,
                    vendorData, registered, sent, pumps, events, ret, opRet,
                    valueMem, oobRead, exitCode, printed >>

Next ==
    \/ Main
    \/ MainExit
    \/ GetCall
    \/ GetReturn
    \/ SetCall
    \/ SetReturn
    \/ SvcReset
    \/ SocketAlloc
    \/ Connect
    \/ Resolve
    \/ BuildBlob
    \/ MsgAlloc
    \/ CbAlloc
    \/ Send
    \/ LoopEnter
    \/ LoopExit
    \/ ErrorHandler
    \/ FinishHandler
    \/ AckHandler
    \/ ResponseHandlerNoData
    \/ ResponseHandlerData
    \/ PumpReturn
    \/ Out

Spec == Init /\ [][Next]_vars

(* ---------------------- vocabulary of the claims ----------------------- *)
SvcReturned == pc = "svc_done"
OpReturned == pc = "main_ret"
AfterLoop == pc \in {"svc_out", "svc_done", "main_ret", "exit"}
IsGet == call.cmd = BRCMF_C_GET_VAR
IsSet == call.cmd = BRCMF_C_SET_VAR
InCycle == pc \in {"svc_loop", "pump"}
DataEventFired == \E i \in DOMAIN events : events[i].tag = "data"
SvcHandles == {"sk", "msg", "cb", "vendor_data"}

(* C1: once resp->error has left -EINPROGRESS, no later callback of the    *)
(* same cycle changes it (ack and finish do not overwrite a recorded code). *)
C1_TerminalCodeIsFinal ==
    [][(InCycle /\ resp.error # -EINPROGRESS) => resp'.error = resp.error]_vars

(* C2: an error callback with a negative code c is the last event of the   *)
(* cycle, no further pump follows it, and send_vendor_cmd, get_iovar_int   *)
(* and set_iovar_int return exactly c.                                      *)
C2_ErrorEventIsOutcome ==
    \A i \in DOMAIN events :
        events[i].tag = "error" =>
            /\ i = Len(events)
            /\ pc # "pump"
            /\ (AfterLoop => ret = events[i].code)
            /\ (pc \in {"main_ret", "exit"} => opRet = events[i].code)

(* C3 as stated: on return 0 the response holds a buffer if and only if a  *)
(* valid-data callback ran in the cycle.                                    *)
C3_DataIffDataEvent ==
    (SvcReturned /\ ret = 0) =>
        /\ (resp.data # NULL) <=> DataEventFired
        /\ (~DataEventFired => resp.data = NULL /\ resp.len = 0)

(* C3 amended: on return 0 the response holds a buffer only if a valid-data *)
(* callback ran and allocated it (and len is that buffer's size); with no   *)
(* valid-data callback data is NULL and len is 0.                           *)
C3_DataOnlyAfterDataEvent ==
    (SvcReturned /\ ret = 0) =>
        /\ resp.data # NULL =>
              \E i \in DOMAIN events :
                  /\ events[i].tag = "data"
                  /\ events[i].buf = resp.data
                  /\ resp.len = Len(heap[resp.data].bytes)
        /\ (~DataEventFired => resp.data = NULL /\ resp.len = 0)

C3_Witness ==
    /\ SvcReturned /\ ret = 0
    /\ resp.data # NULL
    /\ DataEventFired
    /\ resp.len = MaxRespLen

(* C4: when get_iovar_int / set_iovar_int returns, every buffer that        *)
(* response_handler allocated has been freed exactly once.                  *)
C4_BuffersFreedOnce ==
    OpReturned => \A p \in DOMAIN heap : heap[p].frees = 1

(* C5: send_vendor_cmd never releases sk, msg, cb or vendor_data more often *)
(* than it acquired them, acquires each at most once, and has released      *)
(* every one it acquired when it returns.                                   *)
C5_HandlesReleasedOnce ==
    /\ \A x \in SvcHandles : rel[x] <= acq[x] /\ acq[x] <= 1
    /\ pc \in {"svc_done", "main_ret", "exit"} =>
          \A x \in SvcHandles : rel[x] = acq[x]

C5_Witness ==
    /\ SvcReturned
    /\ \A x \in SvcHandles : acq[x] = 1 /\ rel[x] = 1
    /\ ret = 0

(* C6: an error recorded by response_handler (-ENODATA, -ENOMEM) and        *)
(* followed only by ack / finish callbacks is what get_iovar_int /          *)
(* set_iovar_int returns.                                                   *)
C6_DataErrorNotSwallowed ==
    OpReturned =>
        \A i \in DOMAIN events :
            ( /\ events[i].tag = "data"
              /\ events[i].code # 0
              /\ \A j \in (i + 1)..Len(events) :
                    events[j].tag \in {"ack", "finish"} )
            => opRet = events[i].code

(* C7: get_iovar_int returns 0 only if send_vendor_cmd returned 0 and the   *)
(* buffer has at least 4 bytes, and then value holds its first 4 bytes;     *)
(* with return 0 from the transport and no buffer or fewer than 4 bytes it  *)
(* returns -ENODATA and leaves value unwritten; no read goes past the       *)
(* buffer.                                                                  *)
C7_GetIntResult ==
    (OpReturned /\ IsGet) =>
        /\ opRet = 0 =>
              /\ ret = 0
              /\ resp.data \in DOMAIN heap
              /\ resp.len = Len(heap[resp.data].bytes)
              /\ resp.len >= 4
              /\ valueMem = SubSeq(heap[resp.data].bytes, 1, 4)
        /\ (ret = 0 /\ (resp.data = NULL \/ resp.len < 4)) =>
              (opRet = -ENODATA /\ valueMem = <<>>)
        /\ opRet # 0 => valueMem = <<>>
        /\ ~oobRead

C7_Witness ==
    /\ OpReturned /\ IsGet
    /\ opRet = 0
    /\ valueMem = <<1, 2, 3, 4>>

(* C8: for a write whose only callback is ack, send_vendor_cmd returns 0    *)
(* with data NULL and len 0, and set_iovar_int returns 0.                   *)
C8_AckOnlyWrite ==
    (IsSet /\ Len(events) = 1 /\ events[1].tag = "ack") =>
        /\ pc # "pump"
        /\ AfterLoop => (ret = 0 /\ resp.data = NULL /\ resp.len = 0)
        /\ pc \in {"main_ret", "exit"} => opRet = 0

C8_Witness ==
    /\ IsSet /\ Len(events) = 1 /\ events[1].tag = "ack"
    /\ OpReturned
    /\ opRet = 0
    /\ heap = <<>>

(* C9: get_iovar_int hands send_vendor_cmd the name with its terminator and *)
(* a ret_len L with L >= 256 and L >= name_len; the header built is         *)
(* {cmd 262, len L, offset 20, set 0, magic 0}; for "btc_mode" L is 256.    *)
C9_GetRequest ==
    IsGet =>
        /\ call.payload = args.iovar \o <<0>>
        /\ call.ret_len >= 256
        /\ call.ret_len >= Len(args.iovar) + 1
        /\ call.ret_len >= Len(call.payload)
        /\ args.iovar = BtcMode => call.ret_len = 256
        /\ held["vendor_data"] =>
              hdr = [cmd |-> 262, len |-> call.ret_len, offset |-> 20,
                     set |-> 0, magic |-> 0]

C9_Witness ==
    /\ IsGet
    /\ sent = 1
    /\ Len(args.iovar) = MaxNameLen
    /\ hdr.len = MaxNameLen + 5

(* C10: set_iovar_int's payload is the name, its terminator and the 4 bytes *)
(* of the value, name_len + 4 bytes in all, and the header has cmd 263,     *)
(* set 1 and len equal to the payload length.                               *)
C10_SetRequest ==
    IsSet =>
        LET n == Len(args.iovar) + 1 IN
        /\ Len(call.payload) = n + 4
        /\ SubSeq(call.payload, 1, n - 1) = args.iovar
        /\ call.payload[n] = 0
        /\ SubSeq(call.payload, n + 1, n + 4) = U32Mem(args.value, bigEndian)
        /\ held["vendor_data"] =>
              (hdr.cmd = 263 /\ hdr.set = 1 /\ hdr.len = Len(call.payload))

C10_Witness ==
    /\ IsSet
    /\ sent = 1
    /\ args.iovar = BtcMode
    /\ hdr.len = 13

C12_BlobLayout ==
    held["vendor_data"] =>
        LET field(k) == HostU32(SubSeq(vendorData, 4 * k + 1, 4 * k + 4), bigEndian)
        IN  /\ Len(vendorData) = 20 + Len(call.payload)
            /\ SubSeq(vendorData, 21, Len(vendorData)) = call.payload
            /\ field(0) = call.cmd
            /\ field(1) = call.ret_len
            /\ field(2) = 20
            /\ field(3) = (IF args.command = "set_int" THEN 1 ELSE 0)
            /\ field(4) = 0
            /\ hdr.offset = 20 /\ hdr.magic = 0
            /\ hdr.set = 1 <=> args.command = "set_int"
            /\ hdr.set \in {0, 1}

C12_Witness ==
    /\ held["vendor_data"]
    /\ sent = 1
    /\ args.command = "get_int"
    /\ Len(call.payload) = MaxNameLen + 1
    /\ Len(vendorData) = MaxNameLen + 21

(* C13: a failure before the receive loop gives a negative result and no    *)
(* response: nl_socket_alloc failing returns -ENOMEM, genl_ctrl_resolve     *)
(* failing returns its negative code, nl_send_auto failing returns its      *)
(* negative code; no callback runs, nl_recvmsgs is never called, data is    *)
(* NULL and len is 0.                                                       *)
NoCycleRan ==
    /\ events = <<>> /\ pumps = 0 /\ sent = 0
    /\ resp.data = NULL /\ resp.len = 0 /\ heap = <<>>

C13_EarlyFailures ==
    /\ (lastCall.fn = "nl_socket_alloc" /\ lastCall.r = NULL) =>
          /\ pc \in {"svc_done", "main_ret", "exit"}
          /\ ret = -ENOMEM
          /\ NoCycleRan
    /\ (lastCall.fn \in {"genl_ctrl_resolve", "nl_send_auto"} /\ lastCall.r < 0) =>
          /\ AfterLoop
          /\ ret = lastCall.r
          /\ NoCycleRan
    /\ (pc \in {"main_ret", "exit"} /\ lastCall.fn # "none" /\ sent = 0) =>
          (opRet = ret /\ opRet < 0)

C13_Witness ==
    /\ lastCall = [fn |-> "genl_ctrl_resolve", r |-> -10]
    /\ pc = "main_ret"
    /\ opRet = -10

(* C14: the tool exits 0 exactly when the requested operation returned 0    *)
(* and prints its line only then; missing arguments, an unresolvable        *)
(* interface and an unknown command exit 1 without sending a request.       *)
OpRequested ==
    /\ args.argc >= 4
    /\ args.ifindex # 0
    /\ \/ args.command = "get_int"
       \/ args.command = "set_int" /\ args.argc >= 5

C14_ExitStatus ==
    /\ pc # "exit" => (exitCode = -1 /\ printed = <<"none">>)
    /\ pc = "exit" =>
          /\ exitCode \in {0, 1}
          /\ exitCode = 0 <=> (OpRequested /\ opRet = 0)
          /\ printed # <<"none">> <=> exitCode = 0
          /\ exitCode = 0 =>
                /\ printed[1] = (IF args.command = "get_int" THEN "get" ELSE "set")
                /\ printed[2] = args.iovar
          /\ ~OpRequested =>
                (exitCode = 1 /\ sent = 0 /\ call = NoCall /\ lastCall.fn = "none")

C14_Witness ==
    /\ pc = "exit"
    /\ exitCode = 0
    /\ printed[1] = "get"
    /\ sent = 1

(* C15: after a successful send, send_vendor_cmd leaves the loop only with  *)
(* resp->error no longer -EINPROGRESS; once an error, ack or finish         *)
(* callback has run and nl_recvmsgs has returned, the loop test ends the    *)
(* loop; with no callback, or only valid-data callbacks that recorded no    *)
(* error, the loop goes on.                                                 *)
C15_LoopEndsOnTerminalEvent ==
    /\ (AfterLoop /\ sent = 1) => resp.error # -EINPROGRESS
    /\ (pc = "svc_loop" /\ \E i \in DOMAIN events :
                              events[i].tag \in {"error", "ack", "finish"}) =>
          resp.error # -EINPROGRESS
    /\ (pc = "svc_loop" /\ \A i \in DOMAIN events :
                              events[i].tag = "data" /\ events[i].code = 0) =>
          resp.error = -EINPROGRESS

(* C16 as stated: unless its allocation fails, a valid-data callback leaves *)
(* resp->error at -EINPROGRESS, and a cycle whose only callbacks are such   *)
(* valid-data callbacks does not return.                                    *)
DataStep ==
    /\ Len(events') = Len(events) + 1
    /\ events'[Len(events')].tag = "data"

OnlyDataEvents(codes) ==
    /\ sent = 1
    /\ events # <<>>
    /\ \A i \in DOMAIN events :
          events[i].tag = "data" /\ events[i].code \in codes

StillPumping == pc \in {"svc_loop", "pump"} /\ resp.error = -EINPROGRESS

C16_DataEventKeepsInProgress ==
    /\ [][(DataStep /\ resp.error = -EINPROGRESS
             /\ events'[Len(events')].code # -ENOMEM)
          => resp'.error = -EINPROGRESS]_vars
    /\ [](OnlyDataEvents({0, -ENODATA}) => StillPumping)

(* C16 amended: unless its allocation fails or the message has no           *)
(* vendor-data attribute, a valid-data callback leaves resp->error          *)
(* unchanged, and a cycle whose only callbacks are such valid-data          *)
(* callbacks keeps pumping with resp->error at -EINPROGRESS.                *)
C16_CleanDataEventKeepsCode ==
    /\ [][(DataStep /\ events'[Len(events')].code = 0)
          => resp'.error = resp.error]_vars
    /\ [](OnlyDataEvents({0}) => StillPumping)

C16_Witness ==
    /\ OnlyDataEvents({0})
    /\ Len(events) = 2
    /\ resp.data # NULL
    /\ pc = "svc_loop"
    /\ pumps = MaxPumps

(* C17: the response is reset before anything is acquired; the four         *)
(* callbacks are set before the request is sent; at most one request is     *)
(* sent; nl_recvmsgs is called only after a successful send; the socket is  *)
(* freed after the last pump and before the return, and nothing is sent or  *)
(* pumped after that.                                                       *)
C17_StepOrder ==
    /\ [](/\ pc \in {"svc_reset", "svc_sock"} =>
                (\A x \in SvcHandles : acq[x] = 0) /\ sent = 0 /\ pumps = 0
          /\ pc = "svc_sock" =>
                resp = [data |-> NULL, len |-> 0, error |-> -EINPROGRESS]
          /\ sent <= 1
          /\ (pc = "svc_send" \/ sent = 1) =>
                registered = {"error", "finish", "ack", "valid"}
          /\ (pumps > 0 \/ events # <<>> \/ pc \in {"svc_loop", "pump"}) =>
                (sent = 1 /\ lastCall.fn = "nl_send_auto" /\ lastCall.r >= 0)
          /\ pc \in {"svc_done", "main_ret", "exit"} => rel["sk"] = acq["sk"]
          /\ rel["sk"] > 0 => pc \in {"svc_done", "main_ret", "exit"})
    /\ [][rel["sk"] > 0 =>
            (sent' = sent /\ pumps' = pumps /\ events' = events)]_vars

C17_Witness ==
    /\ pc = "svc_done"
    /\ sent = 1
    /\ pumps = MaxPumps
    /\ Len(events) = MaxEvents
    /\ rel["sk"] = 1

(* C18: the value travels little-endian on any host: the 4 bytes after the  *)
(* name terminator are the value's least-significant byte first, the value  *)
(* printed by get_int is the little-endian reading of the first 4 response  *)
(* bytes, and the bytes written for v read back as v.                       *)
LeBytes(v) ==
    << v % 256, (v \div 256) % 256, (v \div 65536) % 256, (v \div 16777216) % 256 >>

LeValue(b) == b[1] + 256 * (b[2] + 256 * (b[3] + 256 * b[4]))

C18_LittleEndianOnAnyHost ==
    /\ IsSet =>
          SubSeq(call.payload, Len(args.iovar) + 2, Len(args.iovar) + 5)
              = LeBytes(args.value)
    /\ (pc = "exit" /\ printed[1] = "get") =>
          printed[3] = LeValue(heap[resp.data].bytes)
    /\ \A v \in Values : HostU32(U32Mem(v, bigEndian), bigEndian) = v

====
